---- MODULE Spec2Model ----
(***************************************************************************)
(* A model of rent-monitor (src/monitor.py): repeated, non-overlapping     *)
(* runs of main() against one seen_ids.json store file.                    *)
(*                                                                         *)
(* A run is cut at the points where main() talks to the outside world:     *)
(* load_config, one fetch+parse per search URL, load_seen_ids, the Slack   *)
(* delivery and save_seen_ids.  Each outside call has the outcomes the     *)
(* code distinguishes (value or exception).                                *)
(***************************************************************************)
EXTENDS Integers, Sequences, FiniteSets

(***************************************************************************)
(* Bounds of the model.                                                    *)
(***************************************************************************)
MaxRuns == 2            \* runs of main() in one behaviour
MaxTargets == 2         \* search URLs in one configuration
MaxFetched == 3         \* listings parsed, summed over the whole behaviour
ShortNameLen == 12      \* characters of a short Property.name
LongNameLen == 1700     \* characters of a long Property.name

(***************************************************************************)
(* Program constants.                                                      *)
(***************************************************************************)
MaxTextLen == 3500      \* text[:3500] in send_slack_notification
PrefixLen == 24         \* len(":house: Rent Monitor 新着 ")
SuffixLen == 3          \* len(" 件\n")
HeadLen == 24           \* len("[賃貸新着通知] 検索URLの新着物件があります")
BlockBaseLen == 126     \* the five lines of one block without the name, for
                        \* five-digit amounts and a 31-character detail URL

(***************************************************************************)
(* Data.  A search URL is represented by its host; a Property by the three *)
(* fields the run's control flow and the message length depend on.  Each   *)
(* site offers two listings: one with a short name, one with a long name.  *)
(***************************************************************************)
Urls == {"suumo.jp", "www.homes.co.jp"}
PropertyIds == {1, 2}

detect_site(url) ==
    IF url = "suumo.jp" THEN "suumo"
    ELSE IF url = "www.homes.co.jp" THEN "homes"
    ELSE "generic"

Property(site) ==
    {[property_id |-> i, source_site |-> site,
      name |-> IF i = 1 THEN "short" ELSE "long"] : i \in PropertyIds}

\* f"{self.source_site}:{self.property_id}"
unique_id_site_dropped(p) == <<"", p.property_id>>

unique_id(p) == <<p.source_site, p.property_id>>

\* sequences over S of length 0..n
SeqsUpTo(S, n) == UNION {[1..k -> S] : k \in 0..n}

(***************************************************************************)
(* The store file and its (de)serialisation.                               *)
(***************************************************************************)
\* str ordering of "site:id" keys, as sorted() applies it
SiteRank(site) == IF site = "homes" THEN 1 ELSE IF site = "suumo" THEN 2 ELSE 0

IdLeq(a, b) ==
    \/ SiteRank(a[1]) < SiteRank(b[1])
    \/ SiteRank(a[1]) = SiteRank(b[1]) /\ a[2] <= b[2]

RECURSIVE sorted(_)
sorted(ids) ==
    IF ids = {} THEN <<>>
    ELSE LET m == CHOOSE x \in ids : \A y \in ids : IdLeq(x, y)
         IN  <<m>> \o sorted(ids \ {m})

\* The file is absent, or text that json.loads rejects ("garbage"), or JSON
\* of one of the shapes load_seen_ids tells apart: a flat list, an object with
\* a list under "seen_ids", anything else.  save_seen_ids writes the object.
AbsentFile == [kind |-> "absent", seen_ids |-> <<>>]
\* an empty or cut-off file: json.loads raises JSONDecodeError
GarbageFile == [kind |-> "garbage", seen_ids |-> <<>>]

load_seen_ids_forgetful(f, readOk) == {}

\* readOk: path.read_text did not raise OSError
load_seen_ids(f, readOk) ==
    IF f.kind = "absent" THEN {}
    ELSE IF ~readOk \/ f.kind = "garbage" THEN {}
    ELSE IF f.kind = "list" THEN {f.seen_ids[i] : i \in DOMAIN f.seen_ids}
    ELSE IF f.kind = "dict" THEN {f.seen_ids[i] : i \in DOMAIN f.seen_ids}
    ELSE {}

SaveOutcomes == {"ok", "open_failed", "write_failed"}

\* path.write_text: open(mode "w") truncates, then the payload is written
save_seen_ids(f, ids, outcome) ==
    IF outcome = "ok" THEN [kind |-> "dict", seen_ids |-> sorted(ids)]
    ELSE IF outcome = "open_failed" THEN f
    ELSE GarbageFile

\* what a load that reads the file gets from it
Stored(f) == load_seen_ids(f, TRUE)

(***************************************************************************)
(* Pure helpers of main().                                                 *)
(***************************************************************************)
RECURSIVE dedupe_from(_, _, _)
dedupe_from(items, seen, out) ==
    IF items = <<>> THEN out
    ELSE IF unique_id(Head(items)) \in seen
         THEN dedupe_from(Tail(items), seen, out)
         ELSE dedupe_from(Tail(items), seen \cup {unique_id(Head(items))},
                          Append(out, Head(items)))

dedupe_properties(items) == dedupe_from(items, {}, <<>>)

NewItemsUndiffed(props, seen) == props

\* [p for p in all_properties if p.unique_id not in seen_ids]
NewItems(props, seen) == SelectSeq(props, LAMBDA p : unique_id(p) \notin seen)

AllIdsNewOnly(seen, props) == {unique_id(props[i]) : i \in DOMAIN props}

\* seen_ids | {p.unique_id for p in all_properties}
AllIds(seen, props) == seen \cup {unique_id(props[i]) : i \in DOMAIN props}

(***************************************************************************)
(* Message layout: only lengths are modelled.                              *)
(***************************************************************************)
NameLen(name) == IF name = "long" THEN LongNameLen ELSE ShortNameLen

BlockLen(p) == BlockBaseLen + NameLen(p.name)

Digits(n) == IF n < 10 THEN 1 ELSE IF n < 100 THEN 2 ELSE 3

RECURSIVE BlocksLen(_, _)
\* characters of blocks 1..k, each followed by "\n" "" "\n"
BlocksLen(items, k) ==
    IF k = 0 THEN 0 ELSE BlocksLen(items, k - 1) + BlockLen(items[k]) + 2

\* offset, in the text handed to send_slack_notification, of the last
\* character of block i
BlockEnd(items, i) ==
    PrefixLen + Digits(Len(items)) + SuffixLen + HeadLen + 2
    + BlocksLen(items, i - 1) + BlockLen(items[i])

\* identities whose whole block is inside text[:3500]
SentIds(items) ==
    {unique_id(items[i]) : i \in {j \in DOMAIN items : BlockEnd(items, j) <= MaxTextLen}}

(***************************************************************************)
(* State.                                                                  *)
(***************************************************************************)
VARIABLES
    file,               \* seen_ids.json on disk
    pc,                 \* idle, config, fetch, fetched, notify, save, done
    config,             \* Config of the current run
    cfgOk,              \* load_config returned
    idx,                \* position of the per-target loop in search_urls
    all_properties,     \* main's all_properties
    seen_ids,           \* main's seen_ids
    new_items,          \* main's new_items
    ret,                \* main's return value (meaningful when pc = "done")
    \* -- what the run did, recorded for the properties below
    fetched,            \* per target, in order: [ok, items]
    loadOk,             \* the load read and parsed the file
    notifyKind,         \* none, zero, no_new, new
    notifyResult,       \* none, ok, fail
    sentIds,            \* identities inside the delivered new-listings text
    saveResult,         \* none, or the outcome of save_seen_ids
    reads, writes,      \* calls of load_seen_ids / save_seen_ids in the run
    fetchesBeforeRead,  \* targets processed when load_seen_ids was called
    fileAtStart,        \* the file when the run started
    \* -- across runs
    runs,               \* runs started
    total,              \* listings parsed so far, all runs
    delivered,          \* identities delivered as new by finished deliveries
    dup,                \* some identity was delivered as new in two runs
    ioClean,            \* no load failed to read or parse, no save failed
    prev                \* previous run, if it saved the store: identities extracted

runVars == <<pc, config, cfgOk, idx, all_properties, seen_ids, new_items, ret,
             fetched, loadOk, notifyKind, notifyResult, sentIds, saveResult,
             reads, writes, fetchesBeforeRead, fileAtStart>>
histVars == <<runs, total, delivered, dup, ioClean, prev>>
vars == <<file, runVars, histVars>>

NoConfig == [search_urls |-> <<>>, notify_on_no_new |-> FALSE]

Configs ==
    [search_urls : SeqsUpTo(Urls, MaxTargets) \ {<<>>}, notify_on_no_new : BOOLEAN]

Ids(props) == {unique_id(props[i]) : i \in DOMAIN props}

Init ==
    /\ file = AbsentFile
    /\ pc = "idle"
    /\ config = NoConfig
    /\ cfgOk = FALSE
    /\ idx = 1
    /\ all_properties = <<>>
    /\ seen_ids = {}
    /\ new_items = <<>>
    /\ ret = 0
    /\ fetched = <<>>
    /\ loadOk = TRUE
    /\ notifyKind = "none"
    /\ notifyResult = "none"
    /\ sentIds = {}
    /\ saveResult = "none"
    /\ reads = 0
    /\ writes = 0
    /\ fetchesBeforeRead = 0
    /\ fileAtStart = AbsentFile
    /\ runs = 0
    /\ total = 0
    /\ delivered = {}
    /\ dup = FALSE
    /\ ioClean = TRUE
    /\ prev = [ids |-> {}, saved |-> FALSE]

(***************************************************************************)
(* main(): a new process starts with fresh locals.                         *)
(***************************************************************************)
StartRun ==
    /\ pc \in {"idle", "done"}
    /\ runs < MaxRuns
    /\ runs' = runs + 1
    /\ prev' = IF saveResult = "ok"
               THEN [ids |-> Ids(all_properties), saved |-> TRUE]
               ELSE [ids |-> {}, saved |-> FALSE]
    /\ fileAtStart' = file
    /\ pc' = "config"
    /\ config' = NoConfig
    /\ cfgOk' = FALSE
    /\ idx' = 1
    /\ all_properties' = <<>>
    /\ seen_ids' = {}
    /\ new_items' = <<>>
    /\ ret' = 0
    /\ fetched' = <<>>
    /\ loadOk' = TRUE
    /\ notifyKind' = "none"
    /\ notifyResult' = "none"
    /\ sentIds' = {}
    /\ saveResult' = "none"
    /\ reads' = 0
    /\ writes' = 0
    /\ fetchesBeforeRead' = 0
    /\ UNCHANGED <<file, total, delivered, dup, ioClean>>

\* load_config returns a Config: at least one URL and a webhook address
ConfigLoaded ==
    /\ pc = "config"
    /\ \E c \in Configs : config' = c
    /\ cfgOk' = TRUE
    /\ pc' = "fetch"
    /\ UNCHANGED <<file, idx, all_properties, seen_ids, new_items, ret, fetched,
                   loadOk, notifyKind, notifyResult, sentIds, saveResult, reads,
                   writes, fetchesBeforeRead, fileAtStart, histVars>>

\* load_config raises: logged, return 1
ConfigError ==
    /\ pc = "config"
    /\ ret' = 1
    /\ pc' = "done"
    /\ UNCHANGED <<file, config, cfgOk, idx, all_properties, seen_ids, new_items,
                   fetched, loadOk, notifyKind, notifyResult, sentIds, saveResult,
                   reads, writes, fetchesBeforeRead, fileAtStart, histVars>>

(***************************************************************************)
(* The per-target loop: fetch_search_html, parse_properties_for_site.      *)
(***************************************************************************)
AfterTargetStopsEarly == "fetched"

\* the loop takes the next URL, or ends after the last one
AfterTarget == IF idx = Len(config.search_urls) THEN "fetched" ELSE "fetch"

\* fetch and parse return: the target's listings are appended
FetchOk ==
    /\ pc = "fetch"
    /\ \E items \in SeqsUpTo(Property(detect_site(config.search_urls[idx])),
                             MaxFetched - total) :
          /\ all_properties' = all_properties \o items
          /\ fetched' = Append(fetched, [ok |-> TRUE, items |-> items])
          /\ total' = total + Len(items)
    /\ idx' = idx + 1
    /\ pc' = AfterTarget
    /\ UNCHANGED <<file, config, cfgOk, seen_ids, new_items, ret, loadOk,
                   notifyKind, notifyResult, sentIds, saveResult, reads, writes,
                   fetchesBeforeRead, fileAtStart, runs, delivered, dup,
                   ioClean, prev>>

FetchFailAborts ==
    /\ pc = "fetch"
    /\ fetched' = Append(fetched, [ok |-> FALSE, items |-> <<>>])
    /\ idx' = idx + 1
    /\ ret' = 1
    /\ pc' = "done"
    /\ UNCHANGED <<file, config, cfgOk, all_properties, seen_ids, new_items,
                   loadOk, notifyKind, notifyResult, sentIds, saveResult, reads,
                   writes, fetchesBeforeRead, fileAtStart, histVars>>

\* fetch or parse raises: logged, nothing is appended, the loop goes on
FetchFail ==
    /\ pc = "fetch"
    /\ fetched' = Append(fetched, [ok |-> FALSE, items |-> <<>>])
    /\ idx' = idx + 1
    /\ pc' = AfterTarget
    /\ UNCHANGED <<file, config, cfgOk, all_properties, seen_ids, new_items, ret,
                   loadOk, notifyKind, notifyResult, sentIds, saveResult, reads,
                   writes, fetchesBeforeRead, fileAtStart, histVars>>

(***************************************************************************)
(* if not all_properties: optional warning to Slack, return 0.             *)
(***************************************************************************)
EmptyResult ==
    /\ pc = "fetched"
    /\ all_properties = <<>>
    /\ IF config.notify_on_no_new
       THEN /\ notifyKind' = "zero"
            /\ \E ok \in BOOLEAN : notifyResult' = IF ok THEN "ok" ELSE "fail"
       ELSE UNCHANGED <<notifyKind, notifyResult>>
    /\ ret' = 0
    /\ pc' = "done"
    /\ UNCHANGED <<file, config, cfgOk, idx, all_properties, seen_ids, new_items,
                   fetched, loadOk, sentIds, saveResult, reads, writes,
                   fetchesBeforeRead, fileAtStart, histVars>>

(***************************************************************************)
(* dedupe_properties, load_seen_ids, the diff.                             *)
(***************************************************************************)
LoadAndDiff ==
    /\ pc = "fetched"
    /\ all_properties # <<>>
    /\ all_properties' = dedupe_properties(all_properties)
    /\ \E readOk \in (IF file.kind \in {"absent", "garbage"} THEN {TRUE} ELSE BOOLEAN) :
          /\ seen_ids' = load_seen_ids(file, readOk)
          /\ loadOk' = (readOk /\ file.kind # "garbage")
    /\ new_items' = NewItems(all_properties', seen_ids')
    /\ reads' = reads + 1
    /\ fetchesBeforeRead' = Len(fetched)
    /\ ioClean' = (ioClean /\ loadOk')
    /\ pc' = "notify"
    /\ UNCHANGED <<file, config, cfgOk, idx, ret, fetched, notifyKind,
                   notifyResult, sentIds, saveResult, writes, fileAtStart, runs,
                   total, delivered, dup, prev>>

(***************************************************************************)
(* The notification.                                                       *)
(***************************************************************************)
PcAfterSendAlwaysSaves(ok) == "save"

\* a failed delivery is logged and main returns 1 at once
PcAfterSend(ok) == IF ok THEN "save" ELSE "done"

RetAfterSend(ok) == IF ok THEN 0 ELSE 1

\* nothing new and notify_on_no_new off: nothing is sent
NoNewSilent ==
    /\ pc = "notify"
    /\ new_items = <<>>
    /\ ~config.notify_on_no_new
    /\ pc' = "save"
    /\ UNCHANGED <<file, config, cfgOk, idx, all_properties, seen_ids, new_items,
                   ret, fetched, loadOk, notifyKind, notifyResult, sentIds,
                   saveResult, reads, writes, fetchesBeforeRead, fileAtStart,
                   histVars>>

\* nothing new and notify_on_no_new on: the no-new report is sent
NotifyNoNew ==
    /\ pc = "notify"
    /\ new_items = <<>>
    /\ config.notify_on_no_new
    /\ notifyKind' = "no_new"
    /\ \E ok \in BOOLEAN :
          /\ notifyResult' = IF ok THEN "ok" ELSE "fail"
          /\ ret' = RetAfterSend(ok)
          /\ pc' = PcAfterSend(ok)
    /\ UNCHANGED <<file, config, cfgOk, idx, all_properties, seen_ids, new_items,
                   fetched, loadOk, sentIds, saveResult, reads, writes,
                   fetchesBeforeRead, fileAtStart, histVars>>

\* new items: the new-listings message is built, cut to 3500 and sent
NotifyNew ==
    /\ pc = "notify"
    /\ new_items # <<>>
    /\ notifyKind' = "new"
    /\ \E ok \in BOOLEAN :
          /\ notifyResult' = IF ok THEN "ok" ELSE "fail"
          /\ sentIds' = IF ok THEN SentIds(new_items) ELSE {}
          /\ ret' = RetAfterSend(ok)
          /\ pc' = PcAfterSend(ok)
    /\ delivered' = delivered \cup sentIds'
    /\ dup' = (dup \/ sentIds' \cap delivered # {})
    /\ UNCHANGED <<file, config, cfgOk, idx, all_properties, seen_ids, new_items,
                   fetched, loadOk, saveResult, reads, writes, fetchesBeforeRead,
                   fileAtStart, runs, total, ioClean, prev>>

(***************************************************************************)
(* save_seen_ids; a failure is logged; return 0.                           *)
(***************************************************************************)
Save ==
    /\ pc = "save"
    /\ \E outcome \in SaveOutcomes :
          /\ file' = save_seen_ids(file, AllIds(seen_ids, all_properties), outcome)
          /\ saveResult' = outcome
    /\ writes' = writes + 1
    /\ ioClean' = (ioClean /\ saveResult' = "ok")
    /\ ret' = 0
    /\ pc' = "done"
    /\ UNCHANGED <<config, cfgOk, idx, all_properties, seen_ids, new_items,
                   fetched, loadOk, notifyKind, notifyResult, sentIds, reads,
                   fetchesBeforeRead, fileAtStart, runs, total, delivered, dup,
                   prev>>

Next ==
    \/ StartRun
    \/ ConfigLoaded
    \/ ConfigError
    \/ FetchOk
    \/ FetchFail
    \/ EmptyResult
    \/ LoadAndDiff
    \/ NoNewSilent
    \/ NotifyNoNew
    \/ NotifyNew
    \/ Save

Spec == Init /\ [][Next]_vars

(***************************************************************************)
(* Properties.  They speak of identities as the pair (site_key,            *)
(* identifier) read off the listings, not through unique_id.               *)
(***************************************************************************)
Key(p) == <<p.source_site, p.property_id>>

Keys(props) == {Key(props[i]) : i \in DOMAIN props}

RECURSIVE ConcatOk(_)
\* the listings of the targets that did not fail, in target order
ConcatOk(fs) ==
    IF fs = <<>> THEN <<>>
    ELSE (IF Head(fs).ok THEN Head(fs).items ELSE <<>>) \o ConcatOk(Tail(fs))

RECURSIVE FirstOccurrences(_, _)
\* of m[1..k], the entries no earlier entry shares its identity with
FirstOccurrences(m, k) ==
    IF k = 0 THEN <<>>
    ELSE IF \E j \in 1..(k - 1) : Key(m[j]) = Key(m[k])
         THEN FirstOccurrences(m, k - 1)
         ELSE Append(FirstOccurrences(m, k - 1), m[k])

Extracted == ConcatOk(fetched)
Diffed == pc \in {"notify", "save", "done"} /\ reads = 1
Finished == pc = "done" /\ cfgOk

\* C1 as stated: no composite identity is in the delivered new-listings
\* notification of more than one run, whatever fetch, load, delivery and save do.
C1_ReportedOnceWhateverOutcomes == ~dup

\* C1 amended: no composite identity is in the delivered new-listings
\* notification of more than one run, as long as no save has failed and no load
\* has failed to read or parse the file.
C1_ReportedOnceWhileStoreIoSucceeds == ioClean => ~dup

\* a listing delivered in the first run is extracted again in the second,
\* with every load and save succeeding
C1_Witness ==
    /\ pc = "done" /\ runs = 2 /\ ioClean /\ prev.saved
    /\ saveResult = "ok"
    /\ Keys(all_properties) \cap delivered \cap prev.ids # {}

\* C2 as stated: a run that extracted a listing and whose delivery failed
\* leaves every extracted identity in the store file.
C2_FailedDeliveryStillPersists ==
    (Finished /\ Extracted # <<>> /\ notifyResult = "fail")
        => Keys(Extracted) \subseteq Stored(file)

\* C2 amended: a run that extracted a listing and whose delivery failed
\* returns 1 without calling save_seen_ids; the store file is as the run found it.
C2_FailedDeliverySkipsSave ==
    (Finished /\ Extracted # <<>> /\ notifyResult = "fail")
        => /\ ret = 1
           /\ writes = 0
           /\ saveResult = "none"
           /\ file = fileAtStart

\* the delivery of new listings failed in a run that found a store on disk
C2_Witness ==
    /\ Finished /\ notifyResult = "fail" /\ notifyKind = "new"
    /\ file.kind = "dict" /\ ~(Keys(Extracted) \subseteq Stored(file))

\* C3: every identity in the persisted store before a run is in the persisted
\* store after it, whatever fetch, load, delivery and save do.
C3_StoreMonotonic ==
    pc = "done" => Stored(fileAtStart) \subseteq Stored(file)

\* C4: after a run whose save succeeded, a load of the file returns exactly the
\* set loaded at the start of the run united with the identities of all listings
\* observed in the run, for every order of extraction.
C4_SaveLoadRoundTrip ==
    (pc = "done" /\ saveResult = "ok")
        => /\ Stored(file) = seen_ids \cup Keys(Extracted)
           /\ file.kind = "dict"
           /\ Len(file.seen_ids) = Cardinality(seen_ids \cup Keys(Extracted))

\* a saved run that loaded a non-empty store and saw both new and known listings
C4_Witness ==
    /\ pc = "done" /\ saveResult = "ok"
    /\ seen_ids # {} /\ new_items # <<>>
    /\ Len(new_items) < Len(all_properties)

\* C5: a run that follows a run which saved the store, extracts the same
\* listings and reads the store, has no new items and sends no new-listings
\* notification; and with an empty loaded store new_items is every extracted
\* listing.
C5_IdempotentDiff ==
    /\ (Diffed /\ prev.saved /\ loadOk /\ Keys(Extracted) = prev.ids)
           => new_items = <<>> /\ notifyKind # "new" /\ sentIds = {}
    /\ (Diffed /\ seen_ids = {}) => new_items = all_properties

\* the second of two runs over the same listings, after a successful save
C5_Witness ==
    /\ pc = "done" /\ runs = 2 /\ prev.saved /\ loadOk /\ reads = 1
    /\ prev.ids # {} /\ Keys(Extracted) = prev.ids
    /\ new_items = <<>>

\* C6: a run with a valid configuration in which no target yields a listing,
\* notify_on_no_new is on and the delivery fails returns a non-zero status.
C6_TotalFetchFailureExitsNonZero ==
    (Finished /\ Extracted = <<>> /\ config.notify_on_no_new
        /\ notifyResult = "fail") => ret # 0

\* C7: targets that raise are skipped and the loop goes on; the merged listings
\* are the concatenation, in target order, of the whole lists of the targets
\* that did not fail; main returns 1 only for a failed delivery.
C7_TargetFailureIsolated ==
    /\ pc \in {"fetch", "fetched"} => all_properties = Extracted
    /\ pc = "fetch" => Len(fetched) = idx - 1 /\ idx <= Len(config.search_urls)
    /\ (cfgOk /\ pc # "fetch")
           => Len(fetched) = Len(config.search_urls)
    /\ (Finished /\ ret = 1) => notifyResult = "fail"

\* the first target failed, the second gave listings, main returned 0
C7_Witness ==
    /\ Finished /\ ret = 0 /\ Len(fetched) = 2
    /\ ~fetched[1].ok /\ fetched[2].ok /\ fetched[2].items # <<>>
    /\ Keys(all_properties) = Keys(fetched[2].items)

\* C8: the sequence that is diffed and formatted holds, in input order, the
\* first occurrence of each (site_key, identifier) pair of the input and
\* nothing else; equal identifiers on different sites are both kept.
C8_DedupeKeepsFirstOccurrence ==
    Diffed =>
        /\ all_properties = FirstOccurrences(Extracted, Len(Extracted))
        /\ Keys(all_properties) = Keys(Extracted)
        /\ \A i, j \in DOMAIN all_properties :
               Key(all_properties[i]) = Key(all_properties[j]) => i = j
        /\ new_items = SelectSeq(all_properties, LAMBDA p : Key(p) \notin seen_ids)

\* a repeated identity was dropped, and one identifier was kept for two sites
C8_Witness ==
    /\ Diffed /\ Len(all_properties) < Len(Extracted)
    /\ \E i, j \in DOMAIN Extracted :
           i < j /\ Key(Extracted[i]) = Key(Extracted[j])
    /\ \E i, j \in DOMAIN all_properties :
           /\ all_properties[i].property_id = all_properties[j].property_id
           /\ all_properties[i].source_site # all_properties[j].source_site

\* C9 as stated: a run past load_config reads the store once, before any target
\* is fetched, and writes it once.
C9_ReadAtStartWriteAtEnd ==
    Finished => reads = 1 /\ writes = 1 /\ fetchesBeforeRead = 0

\* C9 amended: a run past load_config reads the store at most once, after every
\* target was processed and only if a listing was extracted, and writes it at
\* most once, after the read and only if no delivery failed.
C9_ReadAfterFetchWriteUnlessFailed ==
    /\ reads <= 1 /\ writes <= 1 /\ writes <= reads
    /\ reads = 1 => fetchesBeforeRead = Len(config.search_urls) /\ Extracted # <<>>
    /\ writes = 1 => notifyResult # "fail" /\ pc = "done"
    /\ Finished => /\ reads = 1 <=> Extracted # <<>>
                   /\ writes = 1 <=> (reads = 1 /\ notifyResult # "fail")

\* a run over two targets that ended after its one read and its one write
C9_Witness ==
    /\ Finished /\ reads = 1 /\ writes = 1 /\ fetchesBeforeRead = 2
    /\ notifyResult = "ok"

\* C10: every identity a run adds to the persisted store that was not in the
\* loaded store is inside the text handed to the delivery, and that delivery
\* succeeded.
C10_SavedOnlyIfReported ==
    pc = "done" =>
        \A id \in (Stored(file) \ Stored(fileAtStart)) \ seen_ids :
            notifyResult = "ok" /\ id \in sentIds

====
